---- MODULE Spec2Model ----
(***************************************************************************)
(* A model of cumulusci/utils/org_schema.py: the gzip snapshot of the org  *)
(* schema database, the buffered bulk writer, the reconciliation of the    *)
(* describe() results into the database, and the get_org_schema cycle.     *)
(***************************************************************************)
EXTENDS Integers, Sequences, FiniteSets, Bags, TLC

VARIABLES
    artifact,      \* the file at schema_path (org_schema.db.gz)
    pc,            \* position of the running get_org_schema call, "idle" between calls
    force_recache, \* the argument of the running call
    tempdir,       \* whether the TemporaryDirectory of the running call exists
    tempfile,      \* the file temp_org_schema.db inside it
    schema,        \* the Schema object of the running call
    baseline,      \* last_modified_date as passed to populate_cache
    sobj_names,    \* the names sf.describe() listed in the running call
    requests,      \* the composite subrequests deep_describe has sent
    responses,     \* the composite responses of the running call, in arrival order
    full_sobjs,    \* populate_cache's list of (body, Last-Modified) pairs
    recorded,      \* the value populate_cache computed for the "Last-Modified" row
    artifact0,     \* the artifact as it was when the running call started
    load_result,   \* how the load of the prior artifact went in the running call
    outcome,       \* how the last call ended
    bs,            \* a BufferedSession used on its own
    written        \* the rows handed to bs.write_single_row so far, per table

vars == <<artifact, pc, force_recache, tempdir, tempfile, schema,
          baseline, sobj_names, requests, responses, full_sobjs, recorded, artifact0, load_result,
          outcome, bs, written>>

cycle_vars == <<artifact, pc, force_recache, tempdir, tempfile, schema, baseline,
                sobj_names, requests, responses, full_sobjs, recorded, artifact0, load_result, outcome>>

-----------------------------------------------------------------------------
(* Timestamps: an RFC 2822 date as its tokens, and email.utils.parsedate.  *)

None == "None"

\* None where a date is expected.
NoDate == [dow |-> "None", day |-> 0, mon |-> "None", year |-> 0,
           hh |-> 0, mm |-> 0, ss |-> 0, tz |-> "None"]

y2k == [dow |-> "Sat", day |-> 1, mon |-> "Jan", year |-> 2000,
        hh |-> 0, mm |-> 0, ss |-> 1, tz |-> "GMT"]

\* "Wed, 5 Feb 2020 10:00:00 GMT"
StampFeb == [dow |-> "Wed", day |-> 5, mon |-> "Feb", year |-> 2020,
             hh |-> 10, mm |-> 0, ss |-> 0, tz |-> "GMT"]

\* "Mon, 2 Mar 2020 09:00:00 GMT": later than StampFeb as a date, earlier as a string
StampMar == [dow |-> "Mon", day |-> 2, mon |-> "Mar", year |-> 2020,
             hh |-> 9, mm |-> 0, ss |-> 0, tz |-> "GMT"]

\* The Last-Modified headers the remote may send.
Stamps == {StampFeb, StampMar}

MonthNumber(m) ==
    CASE m = "Jan" -> 1 [] m = "Feb" -> 2 [] m = "Mar" -> 3 [] m = "Apr" -> 4
      [] m = "May" -> 5 [] m = "Jun" -> 6 [] m = "Jul" -> 7 [] m = "Aug" -> 8
      [] m = "Sep" -> 9 [] m = "Oct" -> 10 [] m = "Nov" -> 11 [] m = "Dec" -> 12

\* parsedate drops the day name and the zone and yields the 9-tuple
\* (year, month, day, hour, minute, second, 0, 1, -1).
parsedate(ts) ==
    <<ts.year, MonthNumber(ts.mon), ts.day, ts.hh, ts.mm, ts.ss, 0, 1, -1>>

\* Python's > on two tuples of integers.
RECURSIVE TupleGreater(_, _)
TupleGreater(a, b) ==
    IF a = <<>> \/ b = <<>> THEN Len(a) > Len(b)
    ELSE IF Head(a) = Head(b) THEN TupleGreater(Tail(a), Tail(b))
    ELSE Head(a) > Head(b)

\* Alphabetical rank of a day name or a zone name.
StrRank(s) ==
    CASE s = "Fri" -> 1 [] s = "Mon" -> 2 [] s = "Sat" -> 3 [] s = "Sun" -> 4
      [] s = "Thu" -> 5 [] s = "Tue" -> 6 [] s = "Wed" -> 7
      [] s = "GMT" -> 8 [] s = "UTC" -> 9

\* Python's > on two raw date strings whose parsed dates are equal: they can
\* differ in the day name, which comes first, and in the zone, which comes last.
RawGreater(a, b) ==
    IF a.dow # b.dow THEN StrRank(a.dow) > StrRank(b.dow)
    ELSE StrRank(a.tz) > StrRank(b.tz)

\* The pair (parsedate(ts), ts) that populate_cache compares.
Sortable(ts) == <<parsedate(ts), ts>>

\* sortable > max_last_modified
SortableGreater(s, m) ==
    \/ TupleGreater(s[1], m[1])
    \/ s[1] = m[1] /\ RawGreater(s[2], m[2])

-----------------------------------------------------------------------------
(* The database: three tables, each a bag of rows.                         *)

TableOrder == <<"sobjects", "fields", "file_metadata">>

TableNames == {TableOrder[i] : i \in 1..Len(TableOrder)}

\* The declared columns of each table.
TableColumns(t) ==
    CASE t = "sobjects" -> {"name", "actionOverrides", "keyPrefix"}
      [] t = "fields" -> {"sobject", "name", "type"}
      [] t = "file_metadata" -> {"name", "value"}

\* The tables whose name column is declared the (unique) key; a field row is
\* identified by its (sobject, name) pair, which no constraint enforces.
KeyedTables == {"sobjects", "file_metadata"}

RowKey(t, row) ==
    IF t = "fields" THEN <<row.sobject, row.name>> ELSE <<row.name>>

NoRows == [t \in TableNames |-> EmptyBag]

\* A file holding a database; tables says whether create_all has run on it.
NoFile == [exists |-> FALSE, tables |-> FALSE, rows |-> NoRows]

EmptyFile == [exists |-> TRUE, tables |-> FALSE, rows |-> NoRows]

RECURSIVE SeqToBag(_)
SeqToBag(s) ==
    IF s = <<>> THEN EmptyBag ELSE SetToBag({Head(s)}) (+) SeqToBag(Tail(s))

\* Whether some key occurs twice in the bag.
HasDuplicateKey(t, b) ==
    \E r \in BagToSet(b) :
        \/ CopiesIn(r, b) > 1
        \/ \E q \in BagToSet(b) : q # r /\ RowKey(t, q) = RowKey(t, r)

\* session.execute(insert_statement, batch) on a table holding `present`:
\* the batch is added; a repeated key of a keyed table raises IntegrityError.
ExecuteInsert(t, present, batch) ==
    LET after == present (+) SeqToBag(batch)
    IN  IF t \in KeyedTables /\ HasDuplicateKey(t, after)
        THEN [ok |-> FALSE, rows |-> present]
        ELSE [ok |-> TRUE, rows |-> after]

-----------------------------------------------------------------------------
(* BufferedSession.  A session is a record: the per-table buffers, the     *)
(* rows executed in the open transaction (tx), the committed rows (db),    *)
(* the state of the underlying session, whether a call has raised and     *)
(* whether close() has been entered.                                      *)

DefaultMaxBufferSize == 1000

\* _prepare: every declared column with the placeholder None.
prepare_columns(t) == [c \in TableColumns(t) |-> None]

\* __init__ and __enter__
NewBufferedSession(db, max) ==
    [buffered_rows |-> [t \in TableNames |-> <<>>],
     tx |-> NoRows,
     db |-> db,
     session |-> "open",
     max_buffer_size |-> max,
     raised |-> FALSE,
     batches |-> 0,
     close_entered |-> FALSE]

\* A slip in write_single_row: the row is buffered as the caller gave it.
NormalizeRowAsGiven(t, row) == row

\* {**self.columns[tablename], **row}
NormalizeRow(t, row) ==
    LET cols == prepare_columns(t)
    IN  [c \in DOMAIN cols \cup DOMAIN row |->
            IF c \in DOMAIN row THEN row[c] ELSE cols[c]]

\* flush, from the i-th table on: one batched insert per non-empty buffer.
RECURSIVE FlushFrom(_, _)
FlushFrom(s, i) ==
    IF i > Len(TableOrder) THEN s
    ELSE LET t == TableOrder[i]
         IN  IF s.buffered_rows[t] = <<>> THEN FlushFrom(s, i + 1)
             ELSE LET res == ExecuteInsert(t, s.db[t] (+) s.tx[t], s.buffered_rows[t])
                  IN  IF ~res.ok THEN [s EXCEPT !.raised = TRUE]
                      ELSE FlushFrom(
                             [s EXCEPT !.tx[t] = @ (+) SeqToBag(s.buffered_rows[t]),
                                       !.buffered_rows[t] = <<>>,
                                       !.batches = @ + 1],
                             i + 1)

\* A slip in flush: the buffer is not emptied after its insert.
RECURSIVE FlushKeepFrom(_, _)
FlushKeepFrom(s, i) ==
    IF i > Len(TableOrder) THEN s
    ELSE LET t == TableOrder[i]
         IN  IF s.buffered_rows[t] = <<>> THEN FlushKeepFrom(s, i + 1)
             ELSE LET res == ExecuteInsert(t, s.db[t] (+) s.tx[t], s.buffered_rows[t])
                  IN  IF ~res.ok THEN [s EXCEPT !.raised = TRUE]
                      ELSE FlushKeepFrom(
                             [s EXCEPT !.tx[t] = @ (+) SeqToBag(s.buffered_rows[t]),
                                       !.batches = @ + 1],
                             i + 1)

flush_keep(s) == FlushKeepFrom(s, 1)

flush(s) == FlushFrom(s, 1)

\* A slip in write_single_row: the length of the buffer is not looked at.
write_single_row_unchecked(s, t, row) ==
    [s EXCEPT !.buffered_rows[t] = Append(@, NormalizeRow(t, row))]

\* write_single_row
write_single_row(s, t, row) ==
    LET buffered == [s EXCEPT !.buffered_rows[t] = Append(@, NormalizeRow(t, row))]
    IN  IF Len(buffered.buffered_rows[t]) > s.max_buffer_size
        THEN flush(buffered)
        ELSE buffered

\* create_row
create_row(s, t, valuesdict) == write_single_row(s, t, valuesdict)

\* commit: flush, then session.commit() makes the transaction's rows durable.
commit(s) ==
    LET f == flush(s)
    IN  IF f.raised THEN f
        ELSE [f EXCEPT !.db = [t \in TableNames |-> f.db[t] (+) f.tx[t]],
                       !.tx = NoRows]

\* close: commit, then session.close(); a raise in commit skips the close.
close(s) ==
    LET c == commit([s EXCEPT !.close_entered = TRUE])
    IN  IF c.raised THEN c ELSE [c EXCEPT !.session = "closed"]

-----------------------------------------------------------------------------
(* The snapshot file and its compression.                                  *)

\* The file at schema_path: absent, a complete gzip of a database file
\* ("valid"), a file of zero bytes ("empty"), a gzip cut short ("partial"),
\* or bytes that are no gzip at all ("corrupt").
NoArtifact == [kind |-> "absent", content |-> NoFile]

\* zip_database, first half: schema_path.open("wb") creates or truncates the file.
zip_open(art) == [kind |-> "empty", content |-> NoFile]

\* zip_database, second half: the whole database file is written compressed.
zip_write(art, db) == [kind |-> "valid", content |-> db]

\* A slip in unzip_database: the stream is written out as it is read, so a
\* damaged artifact leaves the part of the database that came before the damage.
unzip_database_streaming(art) ==
    CASE art.kind = "valid" -> [ok |-> TRUE, outfile |-> art.content]
      [] art.kind = "empty" -> [ok |-> TRUE, outfile |-> EmptyFile]
      [] OTHER ->
           [ok |-> FALSE,
            outfile |-> [exists |-> TRUE, tables |-> TRUE,
                         rows |-> [NoRows EXCEPT !["fields"] =
                                     SetToBag({[sobject |-> "Account", name |-> "Id",
                                                type |-> None]})]]]

\* unzip_database: outfile is created before the compressed stream is read;
\* a file of zero bytes decompresses to zero bytes, a damaged one raises.
unzip_database(art) ==
    CASE art.kind = "valid" -> [ok |-> TRUE, outfile |-> art.content]
      [] art.kind = "empty" -> [ok |-> TRUE, outfile |-> EmptyFile]
      [] OTHER -> [ok |-> FALSE, outfile |-> EmptyFile]

-----------------------------------------------------------------------------
(* The Schema object.                                                      *)

NoSchema == [exists |-> FALSE, from_cache |-> FALSE, lmd |-> NoDate,
             session |-> "closed", commit_blocked |-> FALSE, pending |-> {},
             io_error |-> FALSE]

\* Schema.__init__
NewSchema == [exists |-> TRUE, from_cache |-> FALSE, lmd |-> NoDate,
              session |-> "open", commit_blocked |-> FALSE, pending |-> {},
              io_error |-> FALSE]

\* The rows of file_metadata named "Last-Modified", with their multiplicity.
LastModifiedRows(file) ==
    LET t == file.rows["file_metadata"]
        hits == {r \in BagToSet(t) : r.name = "Last-Modified"}
    IN  [rows |-> hits,
         count |-> IF hits = {} THEN 0
                   ELSE IF Cardinality(hits) = 1 /\ \A r \in hits : CopiesIn(r, t) = 1
                        THEN 1 ELSE 2]

\* Schema.last_modified_date: the cached value if there is one, else the one
\* "Last-Modified" row (.one() raises on several, NoResultFound is passed over).
last_modified_date(sch, file) ==
    IF sch.lmd # NoDate THEN [raised |-> FALSE, value |-> sch.lmd, sch |-> sch]
    ELSE LET q == LastModifiedRows(file)
         IN  IF ~file.tables \/ q.count > 1
             THEN [raised |-> TRUE, value |-> NoDate, sch |-> sch]
             ELSE IF q.count = 0
             THEN [raised |-> FALSE, value |-> NoDate, sch |-> sch]
             ELSE LET v == (CHOOSE r \in q.rows : TRUE).value
                  IN  [raised |-> FALSE, value |-> v, sch |-> [sch EXCEPT !.lmd = v]]

\* A slip: block_writing leaves session.commit as it is.
block_writing_skipped(sch) == sch

\* Schema.block_writing: session.commit is replaced by a function that raises.
block_writing(sch) == [sch EXCEPT !.commit_blocked = TRUE]

\* assert schema.sobjects.first().name
liveness_check(file) ==
    /\ file.tables
    /\ \E r \in BagToSet(file.rows["sobjects"]) : r.name # None

\* Schema.keys()
keys(file) == {r.name : r \in BagToSet(file.rows["sobjects"])}

-----------------------------------------------------------------------------
(* The remote: describe() lists names, the composite request answers each.  *)

Names == {"Account", "Contact"}

\* The fields of an entity's describe body when it has any.
FullFields(n) ==
    IF n = "Account" THEN <<[name |-> "Id"], [name |-> "Name"]>>
    ELSE <<[name |-> "Id"]>>

NoBody == [name |-> None, fields |-> <<>>]

Bodies(n) == {[name |-> n, fields |-> f] : f \in {<<>>, FullFields(n)}}

\* What the remote may answer for one name: changed (200), unchanged (304)
\* or an error status.
ResponseChoices(n) ==
    {[name |-> n, status |-> 200, body |-> b, last_modified |-> lm] :
        b \in Bodies(n), lm \in Stamps}
    \cup {[name |-> n, status |-> st, body |-> NoBody, last_modified |-> NoDate] :
        st \in {304, 500}}

\* The orders in which the answers for a set of names may arrive.
Orders(S) ==
    {o \in [1..Cardinality(S) -> S] : \A i, j \in DOMAIN o : o[i] = o[j] => i = j}

\* A slip in the request side: the date handed in is not used.
composite_requests_epoch(since, objs) ==
    [i \in DOMAIN objs |->
        [method |-> "GET", obj |-> objs[i], referenceId |-> <<"ref", objs[i]>>,
         if_modified_since |-> y2k]]

\* deep_describe, the request side: one GET subrequest per listed name, each
\* with the date (y2k when there is none) as If-Modified-Since.
composite_requests(since, objs) ==
    LET date == IF since = NoDate THEN y2k ELSE since
    IN  [i \in DOMAIN objs |->
            [method |-> "GET", obj |-> objs[i], referenceId |-> <<"ref", objs[i]>>,
             if_modified_since |-> date]]

\* A slip in the filter: every answer is passed on, whatever its status.
RECURSIVE deep_describe_unfiltered(_)
deep_describe_unfiltered(resp) ==
    IF resp = <<>> THEN <<>>
    ELSE LET r == Head(resp)
         IN  <<[body |-> r.body, last_modified |-> r.last_modified]>>
             \o deep_describe_unfiltered(Tail(resp))

\* deep_describe: the (body, Last-Modified) pairs of the answers with status 200.
RECURSIVE deep_describe(_)
deep_describe(resp) ==
    IF resp = <<>> THEN <<>>
    ELSE LET r == Head(resp)
         IN  (IF r.status = 200
              THEN <<[body |-> r.body, last_modified |-> r.last_modified]>>
              ELSE <<>>) \o deep_describe(Tail(resp))

-----------------------------------------------------------------------------
(* populate_cache, the part that writes.                                   *)

\* A slip in the loop: the last Last-Modified seen replaces the maximum.
RECURSIVE FieldLoopLastWins(_, _, _, _)
FieldLoopLastWins(st, fields, sobject, last_modified) ==
    IF fields = <<>> \/ st.sess.raised THEN st
    ELSE LET field == [c \in DOMAIN Head(fields) \cup {"sobject"} |->
                          IF c = "sobject" THEN sobject ELSE Head(fields)[c]]
             sess == create_row(st.sess, "fields", field)
         IN  FieldLoopLastWins([sess |-> sess, max |-> Sortable(last_modified)],
                               Tail(fields), sobject, last_modified)

\* for field in fields: one fields row each, and the running maximum.
RECURSIVE FieldLoop(_, _, _, _)
FieldLoop(st, fields, sobject, last_modified) ==
    IF fields = <<>> \/ st.sess.raised THEN st
    ELSE LET field == [c \in DOMAIN Head(fields) \cup {"sobject"} |->
                          IF c = "sobject" THEN sobject ELSE Head(fields)[c]]
             sess == create_row(st.sess, "fields", field)
             sortable == Sortable(last_modified)
             max == IF SortableGreater(sortable, st.max) THEN sortable ELSE st.max
         IN  FieldLoop([sess |-> sess, max |-> max], Tail(fields), sobject, last_modified)

\* for (sobj_data, last_modified) in full_sobjs
RECURSIVE EntityLoop(_, _)
EntityLoop(st, full) ==
    IF full = <<>> \/ st.sess.raised THEN st
    ELSE LET item == Head(full)
             sobj_data == [name |-> item.body.name, actionOverrides |-> <<>>]
             sess == create_row(st.sess, "sobjects", sobj_data)
             after == FieldLoop([sess |-> sess, max |-> st.max], item.body.fields,
                                sobj_data.name, item.last_modified)
         IN  EntityLoop(after, Tail(full))

\* A slip after the loop: the format version is not written.
WriteMetadataNoVersion(sess, max_last_modified) ==
    IF sess.raised THEN sess
    ELSE create_row(sess, "file_metadata",
                    [name |-> "Last-Modified", value |-> max_last_modified[2]])

\* The two file_metadata rows written after the loop.
WriteMetadata(sess, max_last_modified) ==
    LET lm == IF sess.raised THEN sess
              ELSE create_row(sess, "file_metadata",
                              [name |-> "Last-Modified", value |-> max_last_modified[2]])
    IN  IF lm.raised THEN lm
        ELSE create_row(lm, "file_metadata", [name |-> "FormatVersion", value |-> 1])

\* with BufferedSession(engine, metadata) as sess: ... ; __exit__ calls close()
\* whether or not the body raised.
populate_cache(rows, full, since) ==
    LET sess0 == NewBufferedSession(rows, DefaultMaxBufferSize)
        looped == EntityLoop([sess |-> sess0, max |-> Sortable(since)], full)
        body == WriteMetadata(looped.sess, looped.max)
    IN  [sess |-> close(body), max_last_modified |-> looped.max]

-----------------------------------------------------------------------------
(* get_org_schema, step by step.                                           *)

PartialArtifact == [kind |-> "partial", content |-> NoFile]

CorruptedArtifact == [kind |-> "corrupt", content |-> NoFile]

\* No call runs; the cache directory is empty or holds a damaged file.
InitCycle ==
    /\ artifact \in {NoArtifact, CorruptedArtifact}
    /\ pc = "idle"
    /\ force_recache = FALSE
    /\ tempdir = FALSE
    /\ tempfile = NoFile
    /\ schema = NoSchema
    /\ baseline = NoDate
    /\ sobj_names = <<>>
    /\ requests = <<>>
    /\ responses = <<>>
    /\ full_sobjs = <<>>
    /\ recorded = NoDate
    /\ artifact0 = artifact
    /\ load_result = "none"
    /\ outcome = "none"

\* A slip in the set-up: the TemporaryDirectory is not entered into the
\* ExitStack, so unwinding closes the session and leaves the directory.
CleanupLeavesScratch(how) ==
    /\ pc' = "idle"
    /\ UNCHANGED <<tempdir, tempfile>>
    /\ schema' = [schema EXCEPT !.session = "closed"]
    /\ outcome' = how
    /\ UNCHANGED <<force_recache, baseline, sobj_names, requests, responses, full_sobjs,
                   artifact0, load_result>>

\* The ExitStack unwinds: schema.close() and the TemporaryDirectory's removal.
Cleanup(how) ==
    /\ pc' = "idle"
    /\ tempdir' = FALSE
    /\ tempfile' = NoFile
    /\ schema' = [schema EXCEPT !.session = "closed"]
    /\ outcome' = how
    /\ UNCHANGED <<force_recache, baseline, sobj_names, requests, responses, full_sobjs, artifact0, load_result>>

\* A slip at the start: force_recache is not looked at.
EnterKeepsArtifact(force) ==
    /\ pc = "idle"
    /\ force_recache' = force
    /\ artifact0' = artifact
    /\ artifact' = artifact
    /\ tempdir' = TRUE
    /\ tempfile' = NoFile
    /\ schema' = NoSchema
    /\ baseline' = NoDate
    /\ sobj_names' = <<>>
    /\ requests' = <<>>
    /\ responses' = <<>>
    /\ full_sobjs' = <<>>
    /\ recorded' = NoDate
    /\ load_result' = "none"
    /\ outcome' = "running"
    /\ pc' = "load"
    /\ UNCHANGED <<bs, written>>

\* The call starts: the forced unlink and the scratch directory.
Enter(force) ==
    /\ pc = "idle"
    /\ force_recache' = force
    /\ artifact0' = artifact
    /\ artifact' = IF force /\ artifact.kind # "absent" THEN NoArtifact ELSE artifact
    /\ tempdir' = TRUE
    /\ tempfile' = NoFile
    /\ schema' = NoSchema
    /\ baseline' = NoDate
    /\ sobj_names' = <<>>
    /\ requests' = <<>>
    /\ responses' = <<>>
    /\ full_sobjs' = <<>>
    /\ recorded' = NoDate
    /\ load_result' = "none"
    /\ outcome' = "running"
    /\ pc' = "load"
    /\ UNCHANGED <<bs, written>>

\* A slip in the load: the cleanups are registered before unzip_database has
\* run, so a damaged artifact is unlinked as well.
load_artifact_eager_cleanup(art) ==
    LET unz == unzip_database(art)
    IN  IF art.kind = "absent"
        THEN [result |-> "absent", artifact |-> art, tempfile |-> NoFile,
              schema |-> NoSchema]
        ELSE IF ~unz.ok
        THEN [result |-> "unzip_failed", artifact |-> NoArtifact, tempfile |-> NoFile,
              schema |-> NoSchema]
        ELSE IF ~liveness_check(unz.outfile)
        THEN [result |-> "check_failed", artifact |-> NoArtifact, tempfile |-> NoFile,
              schema |-> NoSchema]
        ELSE [result |-> "loaded", artifact |-> art, tempfile |-> unz.outfile,
              schema |-> [NewSchema EXCEPT !.from_cache = TRUE]]

\* A slip in the load: a failure after unzip_database unlinks the artifact
\* and closes the session, and leaves the decompressed scratch file.
load_artifact_keeps_scratch(art) ==
    LET unz == unzip_database(art)
    IN  IF art.kind = "absent"
        THEN [result |-> "absent", artifact |-> art, tempfile |-> NoFile,
              schema |-> NoSchema]
        ELSE IF ~unz.ok
        THEN [result |-> "unzip_failed", artifact |-> art, tempfile |-> unz.outfile,
              schema |-> NoSchema]
        ELSE IF ~liveness_check(unz.outfile)
        THEN [result |-> "check_failed", artifact |-> NoArtifact,
              tempfile |-> unz.outfile, schema |-> NoSchema]
        ELSE [result |-> "loaded", artifact |-> art, tempfile |-> unz.outfile,
              schema |-> [NewSchema EXCEPT !.from_cache = TRUE]]

\* if schema_path.exists(): try ... except: the load of the prior artifact.
\* cleanups_on_failure is still empty when unzip_database itself raises; once
\* it has run, a failure unlinks the scratch file and the artifact.
load_artifact(art) ==
    LET unz == unzip_database(art)
    IN  IF art.kind = "absent"
        THEN [result |-> "absent", artifact |-> art, tempfile |-> NoFile,
              schema |-> NoSchema]
        ELSE IF ~unz.ok
        THEN [result |-> "unzip_failed", artifact |-> art, tempfile |-> unz.outfile,
              schema |-> NoSchema]
        ELSE IF ~liveness_check(unz.outfile)
        THEN [result |-> "check_failed", artifact |-> NoArtifact, tempfile |-> NoFile,
              schema |-> NoSchema]
        ELSE [result |-> "loaded", artifact |-> art, tempfile |-> unz.outfile,
              schema |-> [NewSchema EXCEPT !.from_cache = TRUE]]

Load ==
    /\ pc = "load"
    /\ LET got == load_artifact(artifact)
       IN  /\ load_result' = got.result
           /\ artifact' = got.artifact
           /\ tempfile' = got.tempfile
           /\ schema' = got.schema
           /\ pc' = IF got.result = "loaded" THEN "fetch" ELSE "init"
    /\ UNCHANGED <<force_recache, tempdir, baseline, sobj_names, requests, responses, full_sobjs, recorded,
                   artifact0, outcome, bs, written>>

\* if not schema: create_all() on the scratch path and a new Schema.
InitFresh ==
    /\ pc = "init"
    /\ tempfile' = [exists |-> TRUE, tables |-> TRUE, rows |-> tempfile.rows]
    /\ schema' = NewSchema
    /\ pc' = "fetch"
    /\ UNCHANGED <<artifact, force_recache, tempdir, baseline, sobj_names, requests, responses, full_sobjs,
                   recorded, artifact0, load_result, outcome, bs, written>>

\* A slip in populate_cache: the pairs are not collected into a list first but
\* written as they come, so the row of a changed entity is in the database
\* before the next answer has arrived.
materialize_writing(file, full, response) ==
    LET pairs == deep_describe(<<response>>)
        batch == [i \in DOMAIN pairs |->
                     [name |-> pairs[i].body.name, actionOverrides |-> <<>>,
                      keyPrefix |-> None]]
    IN  [file |-> [file EXCEPT !.rows["sobjects"] =
                      ExecuteInsert("sobjects", @, batch).rows],
         full |-> full \o pairs]

\* full_sobjs = list(full_sobjs), for one answer: deep_describe's pair for it,
\* if it yields one, goes to the end of the list; the database is not touched.
materialize(file, full, response) ==
    [file |-> file, full |-> full \o deep_describe(<<response>>)]

\* schema.last_modified_date or y2k, then sf.describe() and the subrequests of
\* deep_describe: one per listed name.
Fetch ==
    /\ pc = "fetch"
    /\ LET lm == last_modified_date(schema, tempfile)
       IN  /\ ~lm.raised
           /\ schema' = lm.sch
           /\ baseline' = IF lm.value = NoDate THEN y2k ELSE lm.value
    /\ \E listed \in SUBSET Names :
         \E objs \in Orders(listed) :
             /\ sobj_names' = objs
             /\ requests' = composite_requests(baseline', objs)
             /\ pc' = IF objs = <<>> THEN "reconcile" ELSE "fetching"
    /\ responses' = <<>>
    /\ full_sobjs' = <<>>
    /\ UNCHANGED <<artifact, force_recache, tempdir, tempfile, recorded, artifact0,
                   load_result, outcome, bs, written>>

\* The names whose subrequest has not been answered yet.
Unanswered ==
    {sobj_names[i] : i \in DOMAIN sobj_names}
        \ {responses[i].name : i \in DOMAIN responses}

\* The answer to one of the subrequests arrives, in whatever order, and
\* list() takes what deep_describe yields for it; after the last one
\* populate_cache goes on.
Receive ==
    /\ pc = "fetching"
    /\ \E n \in Unanswered : \E answer \in ResponseChoices(n) :
         LET got == materialize(tempfile, full_sobjs, answer)
         IN  /\ responses' = Append(responses, answer)
             /\ tempfile' = got.file
             /\ full_sobjs' = got.full
    /\ pc' = IF Len(responses') = Len(requests) THEN "reconcile" ELSE "fetching"
    /\ UNCHANGED <<artifact, force_recache, tempdir, schema, baseline, sobj_names,
                   requests, recorded, artifact0, load_result, outcome, bs, written>>

\* The fetch raising: the watermark query, the listing, or the transport
\* before or between the answers.
FetchFails ==
    /\ pc \in {"fetch", "fetching"}
    /\ \E why \in (IF pc = "fetch" THEN {"fail_listing", "fail_fetch"}
                   ELSE {"fail_fetch"}) :
         Cleanup(IF last_modified_date(schema, tempfile).raised
                 THEN "fail_baseline" ELSE why)
    /\ UNCHANGED <<artifact, recorded, bs, written>>

\* populate_cache from metadata.reflect() to the vacuum.
Reconcile ==
    /\ pc = "reconcile"
    /\ LET done == populate_cache(tempfile.rows, full_sobjs, baseline)
       IN  IF done.sess.raised
           THEN /\ Cleanup("fail_reconcile")
                /\ UNCHANGED recorded
           ELSE /\ tempfile' = [tempfile EXCEPT !.rows = done.sess.db]
                /\ recorded' = done.max_last_modified[2]
                /\ pc' = "freeze"
                /\ UNCHANGED <<force_recache, tempdir, schema, baseline, sobj_names, requests, responses,
                               full_sobjs, artifact0, load_result, outcome>>
    /\ UNCHANGED <<artifact, bs, written>>

\* schema.block_writing()
Freeze ==
    /\ pc = "freeze"
    /\ schema' = block_writing(schema)
    /\ pc' = "zip"
    /\ UNCHANGED <<artifact, force_recache, tempdir, tempfile, baseline, sobj_names, requests, responses,
                   full_sobjs, recorded, artifact0, load_result, outcome, bs, written>>

\* zip_database opens schema_path for writing ...
ZipOpen ==
    /\ pc = "zip"
    /\ artifact' = zip_open(artifact)
    /\ pc' = "zipping"
    /\ UNCHANGED <<force_recache, tempdir, tempfile, schema, baseline, sobj_names, requests, responses,
                   full_sobjs, recorded, artifact0, load_result, outcome, bs, written>>

\* ... and writes the compressed database; then the handle is yielded.
ZipWrite ==
    /\ pc = "zipping"
    /\ artifact' = zip_write(artifact, tempfile)
    /\ pc' = "yielded"
    /\ UNCHANGED <<force_recache, tempdir, tempfile, schema, baseline, sobj_names, requests, responses,
                   full_sobjs, recorded, artifact0, load_result, outcome, bs, written>>

\* The process is killed.  Nothing unwinds; a kill while the compressed bytes
\* are being written leaves what was written so far.  The scratch variables
\* are cleared: no later call looks at the directory the killed one left.
Crash ==
    /\ pc # "idle"
    /\ \E left \in (IF pc = "zipping" THEN {artifact, PartialArtifact} ELSE {artifact}) :
         artifact' = left
    /\ pc' = "idle"
    /\ tempdir' = FALSE
    /\ tempfile' = NoFile
    /\ schema' = NoSchema
    /\ outcome' = "crashed"
    /\ UNCHANGED <<force_recache, baseline, sobj_names, requests, responses, full_sobjs, recorded, artifact0,
                   load_result, bs, written>>

-----------------------------------------------------------------------------
(* The caller, holding the yielded Schema.                                 *)

\* A row the caller may try to add.
CallerRow == [name |-> "Lead", actionOverrides |-> <<>>, keyPrefix |-> None]

\* schema.keys(), values(), items(), schema[name], last_modified_date
CallerRead ==
    /\ pc = "yielded"
    /\ schema.session = "open"
    /\ schema' = last_modified_date(schema, tempfile).sch
    /\ UNCHANGED <<artifact, pc, force_recache, tempdir, tempfile, baseline, sobj_names, requests, responses,
                   full_sobjs, recorded, artifact0, load_result, outcome, bs, written>>

\* schema.session.add(...): the row waits in the session.
CallerAdd ==
    /\ pc = "yielded"
    /\ CallerRow \notin schema.pending
    /\ schema' = [schema EXCEPT !.pending = @ \cup {CallerRow}]
    /\ UNCHANGED <<artifact, pc, force_recache, tempdir, tempfile, baseline, sobj_names, requests, responses,
                   full_sobjs, recorded, artifact0, load_result, outcome, bs, written>>

\* The rows of a database file after a commit of the session's pending rows.
CommitPending(file, pending) ==
    LET res == ExecuteInsert("sobjects", file.rows["sobjects"],
                             IF pending = {} THEN <<>> ELSE <<CallerRow>>)
    IN  [file EXCEPT !.rows["sobjects"] = res.rows]

\* schema.session.commit(): after block_writing this is closed(), which raises
\* IOError; the caller goes on.
CallerCommit ==
    /\ pc = "yielded"
    /\ IF schema.commit_blocked
       THEN /\ schema' = [schema EXCEPT !.io_error = TRUE]
            /\ UNCHANGED tempfile
       ELSE /\ tempfile' = CommitPending(tempfile, schema.pending)
            /\ schema' = [schema EXCEPT !.pending = {}]
    /\ UNCHANGED <<artifact, pc, force_recache, tempdir, baseline, sobj_names, requests, responses,
                   full_sobjs, recorded, artifact0, load_result, outcome, bs, written>>

\* schema.session._real_commit__(): the commit that block_writing kept.
CallerRealCommit ==
    /\ pc = "yielded"
    /\ schema.commit_blocked
    /\ schema.pending # {}
    /\ tempfile' = CommitPending(tempfile, schema.pending)
    /\ schema' = [schema EXCEPT !.pending = {}]
    /\ UNCHANGED <<artifact, pc, force_recache, tempdir, baseline, sobj_names, requests, responses,
                   full_sobjs, recorded, artifact0, load_result, outcome, bs, written>>

\* The with block ends, normally or by an exception of the caller.
ExitSession ==
    /\ pc = "yielded"
    /\ Cleanup("ok")
    /\ UNCHANGED <<artifact, recorded, bs, written>>

-----------------------------------------------------------------------------
(* A BufferedSession used on its own.                                      *)

MaxBufferSize == 2

MaxWrites == 3

\* The rows a caller may write: some leave declared columns out.
WritableRows(t) ==
    CASE t = "sobjects" ->
           {[name |-> "Account"], [name |-> "Contact", keyPrefix |-> "003"]}
      [] t = "fields" ->
           {[sobject |-> "Account", name |-> "Id"],
            [sobject |-> "Account", name |-> "Name", type |-> "string"]}
      [] t = "file_metadata" -> {}

InitBuf ==
    /\ InitCycle
    /\ artifact = NoArtifact
    /\ bs \in {NewBufferedSession(NoRows, m) : m \in 0..MaxBufferSize}
    /\ written = <<>>

BufWrite ==
    /\ bs.session = "open"
    /\ ~bs.raised
    /\ Len(written) < MaxWrites
    /\ \E t \in TableNames : \E row \in WritableRows(t) :
         /\ bs' = write_single_row(bs, t, row)
         /\ written' = Append(written, [table |-> t, row |-> row])
    /\ UNCHANGED cycle_vars

BufFlush ==
    /\ bs.session = "open"
    /\ ~bs.raised
    /\ bs' = flush(bs)
    /\ UNCHANGED <<written, cycle_vars>>

BufCommit ==
    /\ bs.session = "open"
    /\ ~bs.raised
    /\ bs' = commit(bs)
    /\ UNCHANGED <<written, cycle_vars>>

\* close(), called directly or by __exit__ (also after a call has raised).
BufClose ==
    /\ bs.session = "open"
    /\ bs' = close(bs)
    /\ UNCHANGED <<written, cycle_vars>>

-----------------------------------------------------------------------------

Init ==
    /\ InitCycle
    /\ bs = NewBufferedSession(NoRows, DefaultMaxBufferSize)
    /\ written = <<>>

Next ==
    \/ \E force \in BOOLEAN : Enter(force)
    \/ Load
    \/ InitFresh
    \/ Fetch
    \/ Receive
    \/ FetchFails
    \/ Reconcile
    \/ Freeze
    \/ ZipOpen
    \/ ZipWrite
    \/ Crash
    \/ CallerRead
    \/ CallerAdd
    \/ CallerCommit
    \/ CallerRealCommit
    \/ ExitSession

Spec == Init /\ [][Next]_vars

\* A step of the running call itself, the end of the caller's with block included.
CallStep ==
    \/ Load
    \/ InitFresh
    \/ Fetch
    \/ Receive
    \/ FetchFails
    \/ Reconcile
    \/ Freeze
    \/ ZipOpen
    \/ ZipWrite
    \/ ExitSession

\* The calls when the process is not killed.
NextExit ==
    \/ \E force \in BOOLEAN : Enter(force)
    \/ CallStep
    \/ CallerRead
    \/ CallerAdd
    \/ CallerCommit
    \/ CallerRealCommit

Positions == {"idle", "load", "init", "fetch", "fetching", "reconcile", "freeze", "zip", "zipping",
              "yielded"}

\* The running call moves on to another position.  The steps that do so are
\* steps of CallStep; one of them can be taken at every position of a running
\* call, and a call stays at a position for a bounded number of steps only.
Proceeds ==
    /\ pc # "idle"
    /\ pc' \in Positions \ {pc}

\* A call that has started goes on: each statement of get_org_schema returns or
\* raises, and the caller's with block ends.
SpecExit == Init /\ [][NextExit]_vars /\ WF_pc(Proceeds)

NextBuf == BufWrite \/ BufFlush \/ BufCommit \/ BufClose

SpecBuf == InitBuf /\ [][NextBuf]_vars

-----------------------------------------------------------------------------
(* Properties.                                                             *)

\* populate_cache has returned in the running call.
Reconciled == pc \in {"freeze", "zip", "zipping", "yielded"}

FailOutcomes == {"fail_baseline", "fail_listing", "fail_fetch", "fail_reconcile"}

\* The Last-Modified headers of the changed entities of the call.
FetchedStamps == {full_sobjs[i].last_modified : i \in DOMAIN full_sobjs}

\* The names of the changed entities of the call.
FetchedNames == {full_sobjs[i].body.name : i \in DOMAIN full_sobjs}

\* w is a member of S that no member of S is later than, as parsed dates.
IsLatestOf(w, S) ==
    /\ w \in S
    /\ \A x \in S : ~TupleGreater(parsedate(x), parsedate(w))

\* How many rows of the bag have the given name.
CopiesNamed(b, key) ==
    LET hits == {r \in BagToSet(b) : r.name = key}
    IN  BagCardinality([r \in hits |-> CopiesIn(r, b)])

\* The value column of the rows of file_metadata with the given name.
MetadataValues(file, key) ==
    {r.value : r \in {q \in BagToSet(file.rows["file_metadata"]) : q.name = key}}

\* The rows that the changed entities of the call amount to, with the
\* watermark w: one sobjects row per entity, one fields row per field.
ExpectedRows(full, w) ==
    [t \in TableNames |->
       CASE t = "sobjects" ->
              SetToBag({[name |-> full[i].body.name, actionOverrides |-> <<>>,
                         keyPrefix |-> None] : i \in DOMAIN full})
         [] t = "fields" ->
              SetToBag(UNION {{[sobject |-> full[i].body.name,
                                name |-> full[i].body.fields[k].name,
                                type |-> None] : k \in DOMAIN full[i].body.fields}
                              : i \in DOMAIN full})
         [] t = "file_metadata" ->
              SetToBag({[name |-> "Last-Modified", value |-> w],
                        [name |-> "FormatVersion", value |-> 1]})]

\* C1: once populate_cache has returned, the "Last-Modified" row it wrote holds
\* the latest, as parsed dates, of the previous watermark and the Last-Modified
\* headers of all the changed entities, those without fields included.
C1_WatermarkIsLatestOfAll ==
    Reconciled =>
        /\ MetadataValues(tempfile, "Last-Modified") = {recorded}
        /\ IsLatestOf(recorded, {baseline} \cup FetchedStamps)

\* C2: the handle that is yielded reports the watermark that this call's
\* reconciliation recorded; a call that loaded a prior artifact and then saw a
\* changed entity later than the artifact's watermark gets that far.
C2_HandleReportsRecordedWatermark ==
    /\ pc = "yielded" =>
           /\ last_modified_date(schema, tempfile).value = recorded
           /\ MetadataValues(tempfile, "Last-Modified") = {recorded}
    /\ ( /\ load_result = "loaded"
         /\ \E x \in FetchedStamps : TupleGreater(parsedate(x), parsedate(baseline)) )
       => outcome # "fail_reconcile"

\* C3: no database holds two sobjects rows of one name, and a call that loaded
\* a prior artifact does not fail when an entity that has a row is changed again.
C3_OneRowPerEntityName ==
    /\ \A file \in {tempfile, artifact.content} :
           ~HasDuplicateKey("sobjects", file.rows["sobjects"])
    /\ ( /\ load_result = "loaded"
         /\ FetchedNames \cap keys(artifact0.content) # {} )
       => outcome # "fail_reconcile"

C5_NoPartialArtifact == artifact.kind \notin {"empty", "partial"}

\* C6 as stated, for a call that found a complete artifact: whenever the call
\* has failed, the artifact is the one that existed when the call started.
C6_FailedCallLeavesArtifact ==
    (pc = "idle" /\ outcome \in FailOutcomes /\ artifact0.kind = "valid")
        => artifact = artifact0

\* C6 as amended: whenever a call has failed, the artifact is the one that
\* existed when the call started, unless force_recache was set or the artifact
\* decompressed but failed the open or the liveness check; then there is none.
C6_FailedCallArtifact ==
    (pc = "idle" /\ outcome \in FailOutcomes) =>
        artifact = IF force_recache \/ load_result = "check_failed"
                   THEN NoArtifact ELSE artifact0

\* A call that loaded a complete artifact has failed and the artifact is still there.
C6_Witness ==
    /\ pc = "idle"
    /\ outcome \in FailOutcomes
    /\ ~force_recache
    /\ load_result = "loaded"
    /\ artifact.kind = "valid"
    /\ artifact = artifact0

\* C7: a call that found an artifact it could not decompress goes on with an
\* empty database and the baseline y2k, fails only if the remote does, and
\* yields with a complete artifact holding exactly the rows of what it fetched.
C7_DamagedArtifactRebuilt ==
    load_result = "unzip_failed" =>
        /\ outcome \notin {"fail_baseline", "fail_reconcile"}
        /\ pc = "fetch" => tempfile.tables /\ tempfile.rows = NoRows /\ ~schema.from_cache
        /\ pc = "reconcile" => baseline = y2k /\ tempfile.rows = NoRows
        /\ pc = "yielded" =>
               /\ artifact.kind = "valid"
               /\ artifact.content.tables
               /\ artifact.content.rows = ExpectedRows(full_sobjs, recorded)

\* Such a call has yielded, with something fetched.
C7_Witness ==
    /\ pc = "yielded"
    /\ load_result = "unzip_failed"
    /\ artifact0.kind = "corrupt"
    /\ Len(full_sobjs) = 2

\* C8: once block_writing has been called, the rows of the store do not change
\* while the caller holds the handle.
C8_FrozenStoreNeverChanges ==
    [][(schema.commit_blocked /\ pc = "yielded" /\ pc' = "yielded")
          => tempfile' = tempfile]_vars

\* The rows of w written to table t, as they are stored.
RECURSIVE RowsWritten(_, _)
RowsWritten(w, t) ==
    IF w = <<>> THEN EmptyBag
    ELSE (IF Head(w).table = t
          THEN SetToBag({NormalizeRow(t, Head(w).row)}) ELSE EmptyBag)
         (+) RowsWritten(Tail(w), t)

WrittenTo(t) == RowsWritten(written, t)

\* C9: after close() has returned, each table holds exactly the rows that were
\* written to it, each once, and nothing is left in a buffer.
C9_ClosedHoldsExactlyWritten ==
    bs.session = "closed" =>
        /\ \A t \in TableNames : bs.db[t] = WrittenTo(t)
        /\ \A t \in TableNames : bs.buffered_rows[t] = <<>>
        /\ bs.tx = NoRows

\* A session that flushed on its own and was closed with rows still buffered.
C9_Witness ==
    /\ bs.session = "closed"
    /\ Len(written) = 3
    /\ bs.max_buffer_size = 1
    /\ bs.batches >= 2

\* C10: a call that started without an artifact and yielded has stored one
\* sobjects row per changed entity and one fields row per field, every fields
\* row names an entity with a row, and the watermark is the latest of the
\* entities' Last-Modified headers.
C10_FreshCallStore ==
    (pc = "yielded" /\ artifact0.kind = "absent") =>
        LET rows == artifact.content.rows
            expected == ExpectedRows(full_sobjs, recorded)
        IN  /\ rows["sobjects"] = expected["sobjects"]
            /\ rows["fields"] = expected["fields"]
            /\ \A f \in BagToSet(rows["fields"]) : f.sobject \in keys(artifact.content)
            /\ full_sobjs # <<>> =>
                   \E w \in MetadataValues(artifact.content, "Last-Modified") :
                       IsLatestOf(w, FetchedStamps)

\* The rows of the bag that belong to the entity n.
RowsOf(t, b, n) ==
    LET hits == {r \in BagToSet(b) : (IF t = "fields" THEN r.sobject ELSE r.name) = n}
    IN  [r \in hits |-> CopiesIn(r, b)]

\* C11: a call that loaded a complete prior artifact does not fail in its
\* reconciliation; when it yields, the artifact holds, for every entity of the
\* prior artifact that was not reported changed, the sobjects row and the
\* fields rows the prior artifact held, and a row for every changed entity.
C11_SeededCallKeepsAndAdds ==
    load_result = "loaded" =>
        /\ outcome # "fail_reconcile"
        /\ pc = "yielded" =>
               /\ artifact.kind = "valid"
               /\ \A n \in keys(artifact0.content) \ FetchedNames :
                      \A t \in {"sobjects", "fields"} :
                         RowsOf(t, artifact.content.rows[t], n)
                            = RowsOf(t, artifact0.content.rows[t], n)
               /\ FetchedNames \subseteq keys(artifact.content)

\* The subrequests of the running (or last) call have been sent.
RequestsSent ==
    \/ pc \in {"reconcile", "freeze", "zip", "zipping", "yielded"}
    \/ pc = "idle" /\ outcome \in {"ok", "fail_reconcile"}

\* The watermark a database file records, NoDate when it records none.
RecordedWatermark(file) ==
    LET v == MetadataValues(file, "Last-Modified")
    IN  IF Cardinality(v) = 1 THEN CHOOSE x \in v : TRUE ELSE NoDate

\* C12: the If-Modified-Since of every subrequest of a call is the baseline, and
\* the baseline is the watermark recorded in the artifact the call loaded (the
\* one the previous call saved); it is y2k when the call initialized its store
\* afresh or the store it loaded records no watermark.
C12_BaselineIsPreviousWatermark ==
    RequestsSent =>
        /\ baseline =
               IF load_result = "loaded" /\ RecordedWatermark(artifact0.content) # NoDate
               THEN RecordedWatermark(artifact0.content)
               ELSE y2k
        /\ \A i \in DOMAIN requests : requests[i].if_modified_since = baseline

\* A call that loaded an artifact recording a watermark later than y2k has sent
\* two subrequests.
C12_Witness ==
    /\ pc = "reconcile"
    /\ ~force_recache
    /\ load_result = "loaded"
    /\ RecordedWatermark(artifact0.content) = StampMar
    /\ Len(requests) = 2

\* Some subrequest of the call was answered with a status other than 200 and 304.
HasErrorResponse ==
    \E i \in DOMAIN responses : responses[i].status \notin {200, 304}

\* C13: a call in which some subrequest was answered with an error status does
\* not get past its fetch: it neither reconciles nor saves nor yields, and it
\* does not end normally.
C13_ErrorStatusFailsCall ==
    HasErrorResponse =>
        /\ ~Reconciled
        /\ outcome # "ok"

\* The scratch directory is gone and the session of the Schema is closed.
Released ==
    /\ ~tempdir
    /\ ~tempfile.exists
    /\ schema.session = "closed"

\* C14: whenever no call is running, the scratch directory and its database
\* file are gone and the session of the Schema is closed; a call that has
\* started comes to that point, however it ends; and after a call that ended
\* normally the artifact it saved is on disk.
C14_ScratchReleasedOnEveryExit ==
    /\ [](pc = "idle" => Released)
    /\ [](pc = "idle" /\ outcome = "ok" => artifact.kind = "valid" /\ artifact.content.tables)
    /\ (pc # "idle") ~> (pc = "idle" /\ Released)

\* A call whose load was given up has rebuilt, yielded and ended, after the
\* caller was refused a commit.
C14_Witness ==
    /\ pc = "idle"
    /\ outcome = "ok"
    /\ load_result = "check_failed"
    /\ schema.io_error
    /\ Released
    /\ artifact.kind = "valid"

\* C15: a call with force_recache has no artifact in front of it when it comes
\* to the load, loads nothing, works on a database without rows, sends y2k as
\* the baseline, and the database it reconciles and the artifact it saves hold
\* exactly the rows of what this call fetched.
C15_ForcedCallStartsAfresh ==
    (force_recache /\ pc # "idle") =>
        /\ pc = "load" => artifact = NoArtifact
        /\ load_result \in {"none", "absent"}
        /\ pc = "fetch" => tempfile.rows = NoRows /\ ~schema.from_cache
        /\ RequestsSent => baseline = y2k
        /\ pc \in {"freeze", "zip", "zipping"} =>
               tempfile.rows = ExpectedRows(full_sobjs, recorded)
        /\ pc = "yielded" =>
               artifact.content.rows = ExpectedRows(full_sobjs, recorded)

\* A forced call that found an artifact holding Account has yielded with one
\* that holds Contact alone.
C15_Witness ==
    /\ force_recache
    /\ pc = "yielded"
    /\ artifact0.kind = "valid"
    /\ keys(artifact0.content) = {"Account"}
    /\ keys(artifact.content) = {"Contact"}

\* C16: when the load of an existing artifact has been given up, whatever the
\* step that failed, the artifact and the scratch database file are gone by the
\* time the fallback initialization starts.
C16_FailedLoadLeavesNothing ==
    (pc = "init" /\ load_result \in {"unzip_failed", "check_failed"}) =>
        /\ artifact = NoArtifact
        /\ ~tempfile.exists

\* C17: the positions of a call follow one another as reconcile, freeze, save,
\* yield; schema_path is written only by the save, when populate_cache has
\* written its last row and block_writing has run, and what is written is the
\* database file as it then is; at the moment the handle is yielded the
\* artifact is complete and holds what the handle's database holds.
C17_SavedAfterReconcileAndFreeze ==
    [][ /\ (pc' # pc /\ pc' = "freeze") => pc = "reconcile"
        /\ (pc' # pc /\ pc' = "zip") => pc = "freeze"
        /\ (pc' # pc /\ pc' = "zipping") => pc = "zip"
        /\ (pc' # pc /\ pc' = "yielded") => pc = "zipping"
        /\ (artifact' # artifact /\ artifact'.kind \in {"empty", "valid"}) =>
               /\ pc \in {"zip", "zipping"}
               /\ schema.commit_blocked
               /\ MetadataValues(tempfile, "Last-Modified") = {recorded}
               /\ MetadataValues(tempfile, "FormatVersion") = {1}
               /\ artifact'.kind = "valid" => artifact'.content = tempfile
        /\ (pc' # pc /\ pc' = "yielded") =>
               /\ artifact'.kind = "valid"
               /\ artifact'.content = tempfile'
               /\ schema'.commit_blocked
      ]_vars

\* A call has yielded a frozen handle on two entities, saved as they are.
C17_Witness ==
    /\ pc = "yielded"
    /\ schema.commit_blocked
    /\ artifact.kind = "valid"
    /\ artifact.content = tempfile
    /\ keys(tempfile) = Names

\* The positions of the answers with status 200.
Changed == {i \in DOMAIN responses : responses[i].status = 200}

\* C18: deep_describe sends one GET subrequest per listed name, in the order of
\* the listing, each with the baseline as If-Modified-Since (y2k when it is
\* handed no date); it yields one (body, Last-Modified) pair per answer with
\* status 200, in the order of the answers, and none for any other answer.
C18_OneRequestPerNameChangedOnly ==
    RequestsSent =>
        /\ Len(requests) = Len(sobj_names)
        /\ \A i \in DOMAIN requests :
               /\ requests[i].method = "GET"
               /\ requests[i].obj = sobj_names[i]
               /\ requests[i].if_modified_since = baseline
        /\ \A i \in DOMAIN sobj_names :
               composite_requests(NoDate, sobj_names)[i].if_modified_since = y2k
        /\ Len(full_sobjs) = Cardinality(Changed)
        /\ \A i \in Changed :
               \E k \in DOMAIN full_sobjs :
                   /\ full_sobjs[k] = [body |-> responses[i].body,
                                       last_modified |-> responses[i].last_modified]
                   /\ k = Cardinality({j \in Changed : j <= i})
        /\ \A i \in DOMAIN responses \ Changed :
               responses[i].name \notin FetchedNames

\* Two names were listed; the answers came in the other order, one changed
\* and one unchanged.
C18_Witness ==
    /\ pc = "reconcile"
    /\ Len(requests) = 2
    /\ responses[1].name = sobj_names[2]
    /\ responses[1].status = 304
    /\ responses[2].status = 200
    /\ Len(full_sobjs) = 1

\* The tables whose buffer holds rows.
Buffering(s) == {t \in TableNames : s.buffered_rows[t] # <<>>}

\* C19: whenever write_single_row has returned, no buffer holds more than
\* max_buffer_size rows: the write that takes a buffer over the threshold
\* flushes, and any other write only appends the normalized row; a flush()
\* that returns leaves every buffer empty, having executed one insert per
\* buffer that held rows, with exactly those rows, and committed nothing.
C19_BuffersBoundedAndFlushed ==
    /\ [](~bs.raised =>
            \A t \in TableNames : Len(bs.buffered_rows[t]) <= bs.max_buffer_size)
    /\ [][(written' # written /\ ~bs'.raised) =>
            LET w == written'[Len(written')]
                row == NormalizeRow(w.table, w.row)
            IN  IF Len(bs.buffered_rows[w.table]) + 1 > bs.max_buffer_size
                THEN /\ Buffering(bs') = {}
                     /\ bs'.batches = bs.batches + Cardinality(Buffering(bs) \cup {w.table})
                ELSE /\ bs'.buffered_rows =
                           [bs.buffered_rows EXCEPT ![w.table] = Append(@, row)]
                     /\ bs'.batches = bs.batches]_vars
    /\ [][(written' = written /\ bs' = flush(bs) /\ ~bs'.raised) =>
            /\ Buffering(bs') = {}
            /\ bs'.batches = bs.batches + Cardinality(Buffering(bs))
            /\ \A t \in TableNames :
                   bs'.tx[t] = bs.tx[t] (+) SeqToBag(bs.buffered_rows[t])
            /\ bs'.db = bs.db]_vars

\* A session with threshold 1 has flushed two tables' buffers at once on a
\* write and holds one row in a buffer again.
C19_Witness ==
    /\ bs.max_buffer_size = 1
    /\ ~bs.raised
    /\ bs.session = "open"
    /\ bs.batches = 2
    /\ Len(written) = 3
    /\ Cardinality(Buffering(bs)) = 0
    /\ bs.tx["sobjects"] # EmptyBag
    /\ bs.tx["fields"] # EmptyBag
    /\ bs.db = NoRows

\* C20: once close() has been entered, by a direct call or by __exit__ after
\* the body of the with block returned or raised, the underlying session is
\* closed, also when the flush or the commit inside close() raised.
C20_CloseReleasesSession ==
    bs.close_entered => bs.session = "closed"

\* The rows handed to write_single_row for table t, in the order of the calls.
RECURSIVE WritesTo(_, _)
WritesTo(w, t) ==
    IF w = <<>> THEN <<>>
    ELSE (IF Head(w).table = t THEN <<Head(w).row>> ELSE <<>>) \o WritesTo(Tail(w), t)

\* r has exactly the declared columns of t, with the value of `given` where
\* `given` has the column and the placeholder None where it has not.
NormalizedFrom(t, r, given) ==
    /\ DOMAIN r = TableColumns(t)
    /\ \A c \in TableColumns(t) :
           r[c] = IF c \in DOMAIN given THEN given[c] ELSE None

\* C21: the rows in the buffer of a table are the last rows written to it, in
\* order, each with exactly the table's declared columns: the caller's value
\* where the caller gave one and the placeholder None elsewhere; so are the
\* rows that have been inserted, and all rows of a table have one shape.
C21_BufferedRowsNormalized ==
    \A t \in TableNames :
        LET buf == bs.buffered_rows[t]
            given == WritesTo(written, t)
            skip == Len(given) - Len(buf)
        IN  /\ skip >= 0
            /\ \A i \in DOMAIN buf : NormalizedFrom(t, buf[i], given[skip + i])
            /\ \A r \in BagToSet(bs.tx[t] (+) bs.db[t]) :
                   \E k \in DOMAIN given : NormalizedFrom(t, r, given[k])

\* A buffer holds a row whose caller left columns out next to one whose caller
\* gave one of them.
C21_Witness ==
    /\ Len(bs.buffered_rows["sobjects"]) = 2
    /\ bs.buffered_rows["sobjects"][1].keyPrefix = None
    /\ bs.buffered_rows["sobjects"][2].keyPrefix = "003"
    /\ "keyPrefix" \notin DOMAIN written[1].row
    /\ bs.buffered_rows["sobjects"][1].actionOverrides = None

\* The rows of the working database when the running call began to fetch:
\* those of the artifact it loaded, or none.
StartRows ==
    IF load_result = "loaded" THEN artifact0.content.rows ELSE NoRows

\* C22: from the start of the fetch until populate_cache opens its
\* BufferedSession, whether no answer, some or all have arrived, the working
\* database holds the rows it had when the call began to fetch, so that is
\* what a failure of the fetch finds; the writing starts only when every
\* subrequest has been answered and the list of pairs is complete.
C22_NoRowBeforeAllAnswers ==
    /\ pc \in {"fetch", "fetching", "reconcile"} => tempfile.rows = StartRows
    /\ pc = "fetching" => Len(responses) < Len(requests)
    /\ pc = "reconcile" =>
           /\ Len(responses) = Len(requests)
           /\ Unanswered = {}
           /\ full_sobjs = deep_describe(responses)

\* A call that loaded an artifact has had a changed entity answered and waits
\* for the other answer.
C22_Witness ==
    /\ pc = "fetching"
    /\ load_result = "loaded"
    /\ Len(requests) = 2
    /\ Len(responses) = 1
    /\ responses[1].status = 200
    /\ responses[1].name \notin keys(artifact0.content)
    /\ tempfile.rows = artifact0.content.rows

\* a is not earlier than b, as parsed dates.
NotEarlier(a, b) == ~TupleGreater(parsedate(b), parsedate(a))

C24_EmptyArtifactRebuilt ==
    /\ ( /\ pc \notin {"idle", "load"}
         /\ ~force_recache
         /\ artifact0.kind = "valid"
         /\ artifact0.content.rows["sobjects"] = EmptyBag )
       => load_result = "check_failed"
    /\ load_result = "check_failed" =>
           /\ pc = "init" =>
                  /\ artifact = NoArtifact
                  /\ ~tempfile.exists
                  /\ schema.session = "closed"
           /\ pc = "fetch" =>
                  /\ tempfile.tables
                  /\ tempfile.rows = NoRows
                  /\ ~schema.from_cache
           /\ RequestsSent \/ pc = "fetching" => baseline = y2k
           /\ pc = "yielded" =>
                  /\ artifact.kind = "valid"
                  /\ artifact.content.rows = ExpectedRows(full_sobjs, recorded)

\* A call that found an artifact with the two metadata rows and no entity has
\* yielded with an artifact of one entity.
C24_Witness ==
    /\ pc = "yielded"
    /\ ~force_recache
    /\ load_result = "check_failed"
    /\ artifact0.kind = "valid"
    /\ artifact0.content.rows["sobjects"] = EmptyBag
    /\ RecordedWatermark(artifact0.content) = y2k
    /\ Len(full_sobjs) = 1

====
